---- MODULE Spec2Model ----
(***************************************************************************)
(* Model of api/server/models/Post.ts: the Post collection and the static  *)
(* methods getList, add, edit, delete and checkPermission of PostClass.    *)
(* Every method is an async function: it runs up to its next await, the    *)
(* store performs the awaited query atomically, and the method continues.  *)
(* One action models one such step; callers run the methods concurrently.  *)
(***************************************************************************)
EXTENDS Integers, Sequences, FiniteSets, TLC

\* ------------------------------------------------------------------ bounds
MaxPosts == 2      \* ids the store ever hands out
MaxTime  == 2      \* values the clock takes
MaxCalls == 2      \* method invocations in one behaviour

\* ------------------------------------------------------------------ world
Procs == {1, 2}                         \* concurrent callers (requests in flight)

Empty == ""                           \* the empty (falsy) string

UserIds == {"u1", "u2", "u3"}

\* Team and Discussion collections: read by checkPermission, never written here.
\* u1 is a member of d1 and of its team t1; u2 is a member of d1 only; u3 of
\* neither.  d2 names a team that does not exist.  d9 is no discussion at all.
Teams == [t1 |-> [memberIds |-> {"u1"}]]

TeamExists(teamId) == teamId \in {"t1"}

TeamMembers(teamId) == IF teamId = "t1" THEN Teams.t1.memberIds ELSE {}

DiscussionIds == {"d1", "d2"}

DiscussionExists(discussionId) == discussionId \in DiscussionIds

DiscussionTeam(discussionId) == IF discussionId = "d1" THEN "t1" ELSE "t2"

DiscussionMembers(discussionId) ==
    CASE discussionId = "d1" -> {"u1", "u2"}
      [] discussionId = "d2" -> {"u1"}
      [] OTHER -> {}

NoId     == 0                         \* the empty id
IdInputs == 1..MaxPosts

\* ------------------------------------------------------------------ renderer
\* Content is markdown, seen as a sequence of inline elements:
\*   "text"     plain words
\*   "entity"   HTML-entity-encoded markup (he.decode turns it into raw markup)
\*   "link"     [text](href)
\*   "mention"  [`@#name`](href)
Text    == <<"text">>
Mention == <<"mention", "link">>

\* renderer.link: a link whose text starts with <code>@# becomes the text with
\* the marker rewritten and a trailing space; any other link becomes an anchor
\* opening in a new tab, followed by the launch icon.
RenderLink(el) ==
    IF el = "mention"
    THEN <<"<code>@name</code>", " ">>
    ELSE <<"<a target=_blank rel=noopener-noreferrer>", "text", "<i>launch</i>", "</a>">>

RenderInline(el) ==
    CASE el = "text"   -> <<"text">>
      [] el = "entity" -> <<"<markup>">>
      [] OTHER         -> RenderLink(el)

RECURSIVE RenderAll(_)
RenderAll(content) ==
    IF content = <<>> THEN <<>>
    ELSE RenderInline(Head(content)) \o RenderAll(Tail(content))

markdownToHtml(content) == <<"<p>">> \o RenderAll(content) \o <<"</p>">>

\* ------------------------------------------------------------------ state
VARIABLES
    posts,       \* the Post collection: id -> document
    nextId,      \* next _id the store hands out
    now,         \* the clock read by new Date()
    calls,       \* invocations started so far
    pc,          \* per caller: where its method is suspended
    req,         \* per caller: the arguments of its invocation
    post,        \* per caller: the document edit/delete fetched (lean projection)
    ts,          \* per caller: the Date its method took
    outcome,     \* per caller: "none" while running, "ok", or the error thrown
    result,      \* per caller: what getList returned (ids, in order)
    applied,     \* history: the caller's write matched/created/deleted a document
    reads,       \* history: collections checkPermission has queried for the caller
    readBefore,  \* history: callers that had fetched the same post, and not yet written, when this caller fetched it
    lastEdit     \* history: per stored post, the last update edit applied to it

vars == <<posts, nextId, now, calls, pc, req, post, ts, outcome, result,
          applied, reads, readBefore, lastEdit>>

NoDate == 0
NoPost == [found |-> FALSE, createdUserId |-> Empty, discussionId |-> Empty]
NoReq  == [op |-> "none", userId |-> Empty, discussionId |-> Empty, id |-> NoId, content |-> <<>>]
NoEdit == [by |-> 0, content |-> <<>>, at |-> NoDate]

\* What callers pass.  Every user calls every method on every target; the
\* second content and the discussion without a team are tried by u1; and each
\* argument is left empty on an otherwise valid call.
GetListRequests ==
    {[NoReq EXCEPT !.op = "getList", !.userId = x[1], !.discussionId = x[2]] :
        x \in (UserIds \X {"d1"})
              \cup {<<"u1", "d2">>, <<"u1", "d9">>, <<Empty, "d1">>, <<"u1", Empty>>}}

AddRequests ==
    {[NoReq EXCEPT !.op = "add", !.content = x[1], !.userId = x[2], !.discussionId = x[3]] :
        x \in ({Text} \X UserIds \X {"d1", "d9"})
              \cup {<<Mention, "u1", "d1">>, <<Text, "u1", "d2">>}
              \cup {<< <<>>, "u1", "d1">>, <<Text, Empty, "d1">>, <<Text, "u1", Empty>>}}

EditRequests ==
    {[NoReq EXCEPT !.op = "edit", !.content = x[1], !.userId = x[2], !.id = x[3]] :
        x \in ({Text} \X UserIds \X IdInputs)
              \cup ({Mention} \X {"u1"} \X IdInputs)
              \cup {<< <<>>, "u1", 1>>, <<Text, Empty, 1>>, <<Text, "u1", NoId>>}}

DeleteRequests ==
    {[NoReq EXCEPT !.op = "delete", !.userId = x[1], !.id = x[2]] :
        x \in (UserIds \X IdInputs) \cup {<<Empty, 1>>, <<"u1", NoId>>}}

\* The collection outlives the server: it starts empty, or holding a post that
\* u1 added to d1 earlier.
InitialPosts ==
    { <<>>,
      <<[ createdUserId |-> "u1", discussionId |-> "d1", content |-> Text,
          htmlContent |-> markdownToHtml(Text), isEdited |-> FALSE,
          createdAt |-> 1, lastUpdatedAt |-> NoDate ]>> }

Init ==
    /\ posts \in InitialPosts
    /\ nextId = Len(posts) + 1
    /\ now = 1
    /\ calls = 0
    /\ pc = [p \in Procs |-> "idle"]
    /\ req = [p \in Procs |-> NoReq]
    /\ post = [p \in Procs |-> NoPost]
    /\ ts = [p \in Procs |-> NoDate]
    /\ outcome = [p \in Procs |-> "none"]
    /\ result = [p \in Procs |-> <<>>]
    /\ applied = [p \in Procs |-> FALSE]
    /\ reads = [p \in Procs |-> {}]
    /\ readBefore = [p \in Procs |-> {}]
    /\ lastEdit = [i \in DOMAIN posts |-> NoEdit]

\* ------------------------------------------------------------------ helpers
\* Error kinds of the thrown errors.  Dereferencing the null post in edit and
\* delete throws a TypeError; it stands for the absent post.
ErrorKind(msg) ==
    CASE msg = "Bad data"             -> "InvalidInput"
      [] msg = "ValidationError"      -> "InvalidInput"
      [] msg = "Permission denied"    -> "PermissionDenied"
      [] msg = "Discussion not found" -> "NotFound"
      [] msg = "Team not found"       -> "NotFound"
      [] msg = "TypeError"            -> "NotFound"
      [] OTHER                        -> "none"

\* Callers are interchangeable: an invocation takes the first free caller, so
\* caller 2 starts a method only while caller 1's is in flight.
Free(p) == pc[p] \in {"idle", "done"}

CanCall(p) ==
    /\ Free(p)
    /\ calls < MaxCalls
    /\ \A q \in Procs : q < p => ~Free(q)

\* A method starts: its locals and history are fresh.  It either suspends at
\* its first await (next, out = "none") or has thrown already (next = "done").
Begin(p, r, next, date, out) ==
    /\ calls' = calls + 1
    /\ req' = [req EXCEPT ![p] = r]
    /\ pc' = [pc EXCEPT ![p] = next]
    /\ post' = [post EXCEPT ![p] = NoPost]
    /\ ts' = [ts EXCEPT ![p] = date]
    /\ outcome' = [outcome EXCEPT ![p] = out]
    /\ result' = [result EXCEPT ![p] = <<>>]
    /\ applied' = [applied EXCEPT ![p] = FALSE]
    /\ reads' = [reads EXCEPT ![p] = {}]
    /\ readBefore' = [readBefore EXCEPT ![p] = {}]

Throw(p, msg) ==
    /\ pc' = [pc EXCEPT ![p] = "done"]
    /\ outcome' = [outcome EXCEPT ![p] = msg]

Return(p) ==
    /\ pc' = [pc EXCEPT ![p] = "done"]
    /\ outcome' = [outcome EXCEPT ![p] = "ok"]

\* The discussion checkPermission is asked about: getList passes its argument,
\* edit and delete pass the fetched post's discussionId.
PermDiscussionId(p) ==
    IF req[p].op = "getList" THEN req[p].discussionId ELSE post[p].discussionId

\* checkPermission up to its first await (Discussion.findById).
CheckPermissionEnter(userId, discussionId, hasPost, createdUserId) ==
    IF userId = Empty \/ discussionId = Empty THEN "Bad data"
    ELSE IF hasPost /\ createdUserId # userId THEN "Permission denied"
    ELSE "none"

\* ------------------------------------------------------------------ getList
\* getList({userId, discussionId}): enters checkPermission without a post.
CallGetList(p) ==
    /\ CanCall(p)
    /\ \E r \in GetListRequests :
         LET e == CheckPermissionEnter(r.userId, r.discussionId, FALSE, Empty)
         IN  IF e # "none"
             THEN Begin(p, r, "done", NoDate, e)
             ELSE Begin(p, r, "cp_discussion", NoDate, "none")
    /\ UNCHANGED <<posts, nextId, now, lastEdit>>

\* ------------------------------------------------------------------ add
\* add({content, userId, discussionId}): rejects empty content, renders, takes
\* the Date and hands the document to this.create.
\* Variant: an add that checks discussion membership first.
AddEnterChecked(r) ==
    IF r.content = <<>> THEN "Bad data"
    ELSE IF r.userId \notin DiscussionMembers(r.discussionId) THEN "Permission denied"
    ELSE "none"

\* add up to its first await: only the content is checked.
AddEnter(r) == IF r.content = <<>> THEN "Bad data" ELSE "none"

CallAdd(p) ==
    /\ CanCall(p)
    /\ \E r \in AddRequests :
         IF AddEnter(r) # "none"
         THEN Begin(p, r, "done", NoDate, AddEnter(r))
         ELSE Begin(p, r, "add_create", now, "none")
    /\ UNCHANGED <<posts, nextId, now, lastEdit>>

\* The schema's required paths: a document with an empty one is not saved.
SchemaValid(doc) ==
    /\ doc.createdUserId # Empty
    /\ doc.discussionId # Empty
    /\ doc.content # <<>>
    /\ doc.htmlContent # <<>>
    /\ doc.createdAt # NoDate

NewPost(r, date) ==
    [ createdUserId |-> r.userId,
      discussionId  |-> r.discussionId,
      content       |-> r.content,
      htmlContent   |-> markdownToHtml(r.content),
      isEdited      |-> FALSE,
      createdAt     |-> date,
      lastUpdatedAt |-> NoDate ]

Insert(store, id, doc) ==
    [i \in DOMAIN store \cup {id} |-> IF i = id THEN doc ELSE store[i]]

\* this.create resolves: validation, then the insert under a fresh _id.
AddCreate(p) ==
    /\ pc[p] = "add_create"
    /\ LET doc == NewPost(req[p], ts[p])
       IN  IF ~SchemaValid(doc)
           THEN /\ Throw(p, "ValidationError")
                /\ UNCHANGED <<posts, nextId, applied, lastEdit>>
           ELSE /\ nextId <= MaxPosts
                /\ posts' = Insert(posts, nextId, doc)
                /\ lastEdit' = Insert(lastEdit, nextId, NoEdit)
                /\ nextId' = nextId + 1
                /\ applied' = [applied EXCEPT ![p] = TRUE]
                /\ Return(p)
    /\ UNCHANGED <<now, calls, req, post, ts, result, reads, readBefore>>

\* ------------------------------------------------------------------ edit
\* edit({content, userId, id}): rejects empty content or id, then awaits
\* this.findById(id).
CallEdit(p) ==
    /\ CanCall(p)
    /\ \E r \in EditRequests :
         IF r.content = <<>> \/ r.id = NoId
         THEN Begin(p, r, "done", NoDate, "Bad data")
         ELSE Begin(p, r, "edit_findById", NoDate, "none")
    /\ UNCHANGED <<posts, nextId, now, lastEdit>>

\* ------------------------------------------------------------------ delete
\* delete({userId, id}): rejects an empty id, then awaits this.findById(id).
CallDelete(p) ==
    /\ CanCall(p)
    /\ \E r \in DeleteRequests :
         IF r.id = NoId
         THEN Begin(p, r, "done", NoDate, "Bad data")
         ELSE Begin(p, r, "delete_findById", NoDate, "none")
    /\ UNCHANGED <<posts, nextId, now, lastEdit>>

\* The lean projection findById returns, or null.
FindById(id) ==
    IF id \in DOMAIN posts
    THEN [found |-> TRUE, createdUserId |-> posts[id].createdUserId,
          discussionId |-> posts[id].discussionId]
    ELSE NoPost

\* Callers that have fetched post id for an edit and not yet written it.
EditsInFlight(id) ==
    {q \in Procs : /\ req[q].op = "edit" /\ req[q].id = id
                   /\ pc[q] \in {"cp_discussion", "cp_team", "edit_findOneAndUpdate"}}

\* findById resolves in edit or delete.  The method reads post.discussionId
\* (a TypeError when the post is null) and enters checkPermission with the post.
\* Variant: the null post is passed on instead of dereferenced.
AfterFindByIdNoDeref(doc, userId) ==
    CheckPermissionEnter(userId, doc.discussionId, doc.found, doc.createdUserId)

\* The method resumes with the fetched post.
AfterFindById(doc, userId) ==
    IF ~doc.found THEN "TypeError"
    ELSE CheckPermissionEnter(userId, doc.discussionId, TRUE, doc.createdUserId)

FindByIdResolves(p) ==
    LET doc == FindById(req[p].id)
        e   == AfterFindById(doc, req[p].userId)
    IN  /\ post' = [post EXCEPT ![p] = doc]
        /\ readBefore' = [readBefore EXCEPT ![p] = EditsInFlight(req[p].id) \ {p}]
        /\ IF e # "none" THEN Throw(p, e)
           ELSE /\ pc' = [pc EXCEPT ![p] = "cp_discussion"]
                /\ UNCHANGED outcome
        /\ UNCHANGED <<posts, nextId, now, calls, req, ts, result, applied, reads,
                       lastEdit>>

EditFindById(p) ==
    /\ pc[p] = "edit_findById"
    /\ FindByIdResolves(p)

DeleteFindById(p) ==
    /\ pc[p] = "delete_findById"
    /\ FindByIdResolves(p)

\* ------------------------------------------------------------------ checkPermission
\* Discussion.findById resolves: the discussion must exist and list the user;
\* then Team.findById is awaited.
DiscussionVerdict(userId, discussionId) ==
    IF ~DiscussionExists(discussionId) THEN "Discussion not found"
    ELSE IF userId \notin DiscussionMembers(discussionId) THEN "Permission denied"
    ELSE "none"

CheckDiscussion(p) ==
    /\ pc[p] = "cp_discussion"
    /\ reads' = [reads EXCEPT ![p] = @ \cup {"Discussion"}]
    /\ LET e == DiscussionVerdict(req[p].userId, PermDiscussionId(p))
       IN  IF e # "none" THEN Throw(p, e)
           ELSE /\ pc' = [pc EXCEPT ![p] = "cp_team"]
                /\ UNCHANGED outcome
    /\ UNCHANGED <<posts, nextId, now, calls, req, post, ts, result, applied,
                   readBefore, lastEdit>>

\* Team.findById resolves: one error for a missing team and for a team that
\* does not list the user.
TeamVerdict(userId, teamId) ==
    IF ~TeamExists(teamId) \/ userId \notin TeamMembers(teamId)
    THEN "Team not found"
    ELSE "none"

\* checkPermission returned; the calling method runs to its next await:
\* getList awaits the find, edit renders, takes the Date and awaits
\* findOneAndUpdate, delete awaits deleteOne.
AfterPermission(op) ==
    CASE op = "getList" -> "list_find"
      [] op = "edit"    -> "edit_findOneAndUpdate"
      [] OTHER          -> "delete_deleteOne"

CheckTeam(p) ==
    /\ pc[p] = "cp_team"
    /\ reads' = [reads EXCEPT ![p] = @ \cup {"Team"}]
    /\ LET e == TeamVerdict(req[p].userId, DiscussionTeam(PermDiscussionId(p)))
       IN  IF e # "none"
           THEN /\ Throw(p, e)
                /\ UNCHANGED ts
           ELSE /\ pc' = [pc EXCEPT ![p] = AfterPermission(req[p].op)]
                /\ ts' = [ts EXCEPT ![p] = IF req[p].op = "edit" THEN now ELSE @]
                /\ UNCHANGED outcome
    /\ UNCHANGED <<posts, nextId, now, calls, req, post, result, applied,
                   readBefore, lastEdit>>

\* ------------------------------------------------------------------ store steps
\* Variant: a find without the filter.
ListFilterAll(discussionId) == DOMAIN posts

\* The filter of getList's find.
ListFilter(discussionId) ==
    {i \in DOMAIN posts : posts[i].discussionId = discussionId}

\* sort({createdAt: 1}): the ids in an order of ascending createdAt; documents
\* with equal createdAt come in any order.
IsAscending(s) ==
    \A i, j \in 1..Len(s) : i < j => posts[s[i]].createdAt <= posts[s[j]].createdAt

SortByCreatedAt(ids) ==
    {s \in [1..Cardinality(ids) -> ids] :
        /\ \A i \in ids : \E k \in 1..Cardinality(ids) : s[k] = i
        /\ IsAscending(s)}

ListFind(p) ==
    /\ pc[p] = "list_find"
    /\ \E s \in SortByCreatedAt(ListFilter(req[p].discussionId)) :
         result' = [result EXCEPT ![p] = s]
    /\ Return(p)
    /\ UNCHANGED <<posts, nextId, now, calls, req, post, ts, applied, reads,
                   readBefore, lastEdit>>

\* Variant: an update that leaves htmlContent as it was.
EditUpdateStaleHtml(doc, r, date) ==
    [doc EXCEPT !.content = r.content, !.isEdited = TRUE, !.lastUpdatedAt = date]

\* Variant: an update that stamps lastUpdatedAt on the first edit only.
EditUpdateFirstOnly(doc, r, date) ==
    [doc EXCEPT !.content = r.content,
                !.htmlContent = markdownToHtml(r.content),
                !.isEdited = TRUE,
                !.lastUpdatedAt = IF doc.isEdited THEN @ ELSE date]

\* Variant: an update that also restamps createdAt.
EditUpdateTouch(doc, r, date) ==
    [doc EXCEPT !.content = r.content,
                !.htmlContent = markdownToHtml(r.content),
                !.isEdited = TRUE,
                !.createdAt = date,
                !.lastUpdatedAt = date]

\* The update document of edit.
EditUpdate(doc, r, date) ==
    [doc EXCEPT !.content = r.content,
                !.htmlContent = markdownToHtml(r.content),
                !.isEdited = TRUE,
                !.lastUpdatedAt = date]

\* Variant: findOneAndUpdate with upsert.
FindOneAndUpdateUpsert(store, id, r, date) ==
    IF id \in DOMAIN store
    THEN [store EXCEPT ![id] = EditUpdate(@, r, date)]
    ELSE Insert(store, id, [ createdUserId |-> r.userId, discussionId |-> "d1",
                             content |-> r.content,
                             htmlContent |-> markdownToHtml(r.content),
                             isEdited |-> TRUE, createdAt |-> date,
                             lastUpdatedAt |-> date ])

\* findOneAndUpdate({_id: id}, update, {new: true}): no upsert.
FindOneAndUpdate(store, id, r, date) ==
    IF id \in DOMAIN store
    THEN [store EXCEPT ![id] = EditUpdate(@, r, date)]
    ELSE store

\* findOneAndUpdate({_id: id}, ...) resolves: the matching document is
\* replaced in one write; with no match nothing is written and null returned.
EditFindOneAndUpdate(p) ==
    /\ pc[p] = "edit_findOneAndUpdate"
    /\ LET id == req[p].id
       IN  IF id \in DOMAIN posts
           THEN /\ lastEdit' = [lastEdit EXCEPT ![id] =
                                  [by |-> p, content |-> req[p].content, at |-> ts[p]]]
                /\ applied' = [applied EXCEPT ![p] = TRUE]
           ELSE UNCHANGED <<lastEdit, applied>>
    /\ posts' = FindOneAndUpdate(posts, req[p].id, req[p], ts[p])
    /\ Return(p)
    /\ UNCHANGED <<nextId, now, calls, req, post, ts, result, reads, readBefore>>

\* Variant: a deleteOne whose filter matches nothing.
RemoveNone(store, id) == store

Remove(store, id) == [i \in DOMAIN store \ {id} |-> store[i]]

\* deleteOne({_id: id}) resolves.
DeleteOne(p) ==
    /\ pc[p] = "delete_deleteOne"
    /\ LET id == req[p].id
       IN  /\ posts' = Remove(posts, id)
           /\ lastEdit' = [i \in DOMAIN posts' |-> lastEdit[i]]
           /\ applied' = [applied EXCEPT ![p] = id \in DOMAIN posts]
    /\ Return(p)
    /\ UNCHANGED <<nextId, now, calls, req, post, ts, result, reads, readBefore>>

\* ------------------------------------------------------------------ clock
Tick ==
    /\ now < MaxTime
    /\ now' = now + 1
    /\ UNCHANGED <<posts, nextId, calls, pc, req, post, ts, outcome, result,
                   applied, reads, readBefore, lastEdit>>

\* ------------------------------------------------------------------ specification
Next ==
    \/ Tick
    \/ \E p \in Procs :
         \/ CallGetList(p)
         \/ CallAdd(p)
         \/ CallEdit(p)
         \/ CallDelete(p)
         \/ AddCreate(p)
         \/ EditFindById(p)
         \/ DeleteFindById(p)
         \/ CheckDiscussion(p)
         \/ CheckTeam(p)
         \/ ListFind(p)
         \/ EditFindOneAndUpdate(p)
         \/ DeleteOne(p)

Spec == Init /\ [][Next]_vars

TypeOK ==
    /\ DOMAIN posts \subseteq 1..MaxPosts
    /\ nextId \in 1..(MaxPosts + 1)
    /\ now \in 1..MaxTime
    /\ calls \in 0..MaxCalls

\* ------------------------------------------------------------------ properties
Done(p) == pc[p] = "done"

\* p's method ends in this step.
Ends(p) == pc[p] # "done" /\ pc'[p] = "done"

Mutating == {"add", "edit", "delete"}

MemberOfDiscussion(userId, discussionId) ==
    DiscussionExists(discussionId) /\ userId \in DiscussionMembers(discussionId)

MemberOfTeam(userId, discussionId) ==
    /\ TeamExists(DiscussionTeam(discussionId))
    /\ userId \in TeamMembers(DiscussionTeam(discussionId))

MemberOfBoth(userId, discussionId) ==
    MemberOfDiscussion(userId, discussionId) /\ MemberOfTeam(userId, discussionId)

\* C1: an edit or delete of an existing post, whose discussion and team exist,
\* by a caller who is not the author, or not in the discussion's memberIds, or
\* not in the team's memberIds, fails with PermissionDenied.
C1_DeniedIsPermissionDenied ==
    \A p \in Procs :
        ( /\ Done(p)
          /\ req[p].op \in {"edit", "delete"}
          /\ req[p].userId \in UserIds
          /\ post[p].found
          /\ DiscussionExists(post[p].discussionId)
          /\ TeamExists(DiscussionTeam(post[p].discussionId))
          /\ \/ post[p].createdUserId # req[p].userId
             \/ req[p].userId \notin DiscussionMembers(post[p].discussionId)
             \/ req[p].userId \notin TeamMembers(DiscussionTeam(post[p].discussionId)) )
        => ErrorKind(outcome[p]) = "PermissionDenied"

\* What a successful add, edit or delete of p has done to the store in the
\* step that ends it.
MutationApplied(p) ==
    CASE req'[p].op = "add" ->
           /\ nextId \notin DOMAIN posts
           /\ DOMAIN posts' = DOMAIN posts \cup {nextId}
           /\ posts'[nextId].createdUserId = req[p].userId
           /\ posts'[nextId].discussionId = req[p].discussionId
           /\ posts'[nextId].content = req[p].content
      [] req'[p].op = "edit" ->
           /\ req[p].id \in DOMAIN posts'
           /\ posts'[req[p].id].content = req[p].content
           /\ posts'[req[p].id].isEdited
      [] OTHER ->
           /\ req[p].id \in DOMAIN posts
           /\ req[p].id \notin DOMAIN posts'

\* The post p fetched was deleted by another caller before p's write.
LostPost(p) ==
    /\ req[p].op \in {"edit", "delete"}
    /\ post[p].found
    /\ req[p].id \notin DOMAIN posts

\* C2 as claimed: every add, edit or delete ends either without an error and
\* with its mutation applied, or with an error and the store unchanged.
C2_AllOrNothing ==
    [][\A p \in Procs :
         (Ends(p) /\ req'[p].op \in Mutating)
         => \/ outcome'[p] = "ok" /\ MutationApplied(p)
            \/ outcome'[p] # "ok" /\ posts' = posts]_vars

\* C2 amended: as claimed, except that an edit or delete whose post another
\* caller deleted between its fetch and its write ends without an error and
\* with the store unchanged.
C2_AllOrNothingUnlessLost ==
    [][\A p \in Procs :
         (Ends(p) /\ req'[p].op \in Mutating)
         => \/ outcome'[p] = "ok" /\ MutationApplied(p)
            \/ outcome'[p] # "ok" /\ posts' = posts
            \/ outcome'[p] = "ok" /\ LostPost(p) /\ posts' = posts]_vars

\* An edit returned without an error although its post was gone, after a
\* delete that ran between its fetch and its write.
C2_Witness ==
    \E p, q \in Procs :
        /\ Done(p) /\ req[p].op = "edit" /\ outcome[p] = "ok" /\ ~applied[p]
        /\ Done(q) /\ req[q].op = "delete" /\ outcome[q] = "ok" /\ applied[q]
        /\ req[q].id = req[p].id

\* C3: every stored post's htmlContent is the rendering of its content.
C3_HtmlIsRendered ==
    \A i \in DOMAIN posts : posts[i].htmlContent = markdownToHtml(posts[i].content)

\* Two edits of one post with different contents interleaved and both wrote.
C3_Witness ==
    \E p, q \in Procs :
        /\ p # q
        /\ Done(p) /\ req[p].op = "edit" /\ applied[p]
        /\ Done(q) /\ req[q].op = "edit" /\ applied[q]
        /\ req[p].id = req[q].id
        /\ req[p].content # req[q].content
        /\ q \in readBefore[p]
        /\ req[p].id \in DOMAIN posts

\* s lists exactly the stored posts of the discussion, each once, in
\* non-decreasing createdAt.
IsListing(s, discussionId) ==
    /\ \A k \in 1..Len(s) : s[k] \in DOMAIN posts /\ posts[s[k]].discussionId = discussionId
    /\ \A i \in DOMAIN posts : posts[i].discussionId = discussionId
                                 => \E k \in 1..Len(s) : s[k] = i
    /\ \A j, k \in 1..Len(s) : j < k => /\ s[j] # s[k]
                                        /\ posts[s[j]].createdAt <= posts[s[k]].createdAt

\* C4: a getList by a member of the discussion and its team ends without an
\* error and returns exactly the stored posts of that discussion in
\* non-decreasing createdAt; any other getList fails and returns no posts.
C4_GetList ==
    [][\A p \in Procs :
         (Ends(p) /\ req'[p].op = "getList")
         => IF MemberOfBoth(req'[p].userId, req'[p].discussionId)
            THEN outcome'[p] = "ok" /\ IsListing(result'[p], req'[p].discussionId)
            ELSE outcome'[p] # "ok" /\ result'[p] = <<>>]_vars

\* A member listed two posts created at different times, the older first.
C4_Witness ==
    \E p \in Procs :
        /\ Done(p) /\ req[p].op = "getList" /\ outcome[p] = "ok"
        /\ Len(result[p]) = 2
        /\ \A k \in 1..2 : result[p][k] \in DOMAIN posts
        /\ posts[result[p][1]].createdAt < posts[result[p][2]].createdAt

\* C5: a stored post has isEdited exactly when an edit of it has succeeded and
\* lastUpdatedAt exactly when isEdited; lastUpdatedAt is the Date of the last
\* successful edit; and no step takes isEdited back to false.
EditedState(i) ==
    /\ posts[i].isEdited = (lastEdit[i] # NoEdit)
    /\ (posts[i].lastUpdatedAt # NoDate) = posts[i].isEdited
    /\ posts[i].lastUpdatedAt = lastEdit[i].at

C5_IsEdited ==
    [][/\ \A i \in DOMAIN posts' : EditedState(i)'
       /\ \A i \in DOMAIN posts \cap DOMAIN posts' :
             posts[i].isEdited => posts'[i].isEdited]_vars

\* A post was edited twice, and the second edit took a later Date.
C5_Witness ==
    \E i \in DOMAIN posts :
        /\ posts[i].isEdited
        /\ posts[i].lastUpdatedAt > posts[i].createdAt
        /\ \A p \in Procs : Done(p) /\ req[p].op = "edit" /\ req[p].id = i /\ applied[p]
        /\ \E p \in Procs : ts[p] < posts[i].lastUpdatedAt

\* C6: every stored post's discussionId is the id of an existing Discussion.
C6_DiscussionExists ==
    \A i \in DOMAIN posts : DiscussionExists(posts[i].discussionId)

\* C7: no step changes createdUserId, discussionId or createdAt of a stored
\* post, and the write of an edit leaves every other post as it was.
C7_EditFrame ==
    [][/\ \A i \in DOMAIN posts \cap DOMAIN posts' :
             /\ posts'[i].createdUserId = posts[i].createdUserId
             /\ posts'[i].discussionId = posts[i].discussionId
             /\ posts'[i].createdAt = posts[i].createdAt
       /\ \A p \in Procs :
             (pc[p] = "edit_findOneAndUpdate" /\ Ends(p))
             => /\ DOMAIN posts' = DOMAIN posts
                /\ \A i \in DOMAIN posts : i # req[p].id => posts'[i] = posts[i]]_vars

\* An edit was applied, at a Date after the post's creation, while the store
\* held another post.
C7_Witness ==
    \E p \in Procs :
        /\ Done(p) /\ req[p].op = "edit" /\ applied[p]
        /\ req[p].id \in DOMAIN posts
        /\ posts[req[p].id].lastUpdatedAt > posts[req[p].id].createdAt
        /\ \E j \in DOMAIN posts : j # req[p].id

\* The user is in neither the discussion's memberIds nor its team's.
Outsider(userId, discussionId) ==
    /\ userId \in UserIds
    /\ DiscussionExists(discussionId)
    /\ userId \notin DiscussionMembers(discussionId)
    /\ userId \notin TeamMembers(DiscussionTeam(discussionId))

C9_LastWriterWins ==
    [][\A p \in Procs :
         /\ (pc[p] = "edit_findOneAndUpdate" /\ pc'[p] # pc[p])
            => /\ pc'[p] = "done" /\ outcome'[p] = "ok"
               /\ IF req[p].id \in DOMAIN posts
                  THEN /\ req[p].id \in DOMAIN posts'
                       /\ posts'[req[p].id].content = req[p].content
                  ELSE posts' = posts
         /\ (pc[p] = "delete_deleteOne" /\ pc'[p] # pc[p])
            => /\ pc'[p] = "done" /\ outcome'[p] = "ok"
               /\ req[p].id \notin DOMAIN posts']_vars

\* Two edits of one post with different contents both succeeded; the one that
\* fetched first wrote last, and its content is the stored one.
C9_Witness ==
    \E p, q \in Procs :
        /\ p # q
        /\ Done(p) /\ req[p].op = "edit" /\ outcome[p] = "ok" /\ applied[p]
        /\ Done(q) /\ req[q].op = "edit" /\ outcome[q] = "ok" /\ applied[q]
        /\ req[p].id = req[q].id
        /\ req[p].content # req[q].content
        /\ q \in readBefore[p]
        /\ req[p].id \in DOMAIN posts
        /\ lastEdit[req[p].id].by = q
        /\ posts[req[p].id].content = req[q].content

\* C10: when the findById of an edit or delete finds no post, the method ends
\* in that step with an error of kind NotFound, no Discussion or Team has been
\* queried for it, and the store is unchanged.
C10_MissingPost ==
    [][\A p \in Procs :
         ( /\ pc[p] \in {"edit_findById", "delete_findById"}
           /\ pc'[p] # pc[p]
           /\ req[p].id \notin DOMAIN posts )
         => /\ pc'[p] = "done"
            /\ ErrorKind(outcome'[p]) = "NotFound"
            /\ reads'[p] = {}
            /\ posts' = posts]_vars

\* An edit or delete found its post already deleted by the other caller.
C10_Witness ==
    \E p, q \in Procs :
        /\ Done(p) /\ req[p].op \in {"edit", "delete"} /\ outcome[p] = "TypeError"
        /\ reads[p] = {}
        /\ Done(q) /\ req[q].op = "delete" /\ applied[q]
        /\ req[q].id = req[p].id

====

